---------------------------- MODULE Spec2Model ----------------------------
(***************************************************************************)
(* Risk assessment of Soba-DEX: the fraud detection service                *)
(* (python/services/fraud_detection_service.py) and the MEV detector       *)
(* (python/services/blockchain_intelligence_service.py), the threat        *)
(* processing of the security scanner (security/scanner/main.py), the      *)
(* market data validator (python/services/data_processing_service.py) and  *)
(* the metrics service (python/services/metrics_service.py).               *)
(* Specifications: Spec (the service), SpecDetect (direct calls of the     *)
(* pure functions), SpecScan (the scanner), SpecMetrics and SpecAlerts     *)
(* (the metrics service), SpecLoop (the service on its event loop).        *)
(*                                                                         *)
(* Units.  Floats are kept as fixed-point integers:                        *)
(*   risk_score                  in 1/10000   (0.15 = 1500, 1.0 = 10000)   *)
(*   anomaly score, confidence   in 1/1000    (0.7 = 700)                  *)
(*   score_samples (raw)         in 1/1000    (-0.4 = -400)                *)
(*   slippage                    in 1/10000   (0.001 = 10, 0.05 = 500)     *)
(*   amounts, gas prices         in whole units, times in seconds.         *)
(* anomaly_score * 0.3 in risk units is anomaly (in 1/1000) times 3.       *)
(***************************************************************************)
EXTENDS Integers, Sequences, FiniteSets, TLC

VARIABLES
    model_trained,  \* AnomalyDetector.model_trained
    forest,         \* the fitted IsolationForest (NoForest before a fit)
    now,            \* the wall clock, datetime.now(), in seconds
    last,           \* the latest assess_risk call: request, model seen, outcome
    again,          \* a second assess_risk call with the request of `last`
    det,            \* the latest direct call of a detector and its result
    scanner,        \* the SecurityScanner process, its stores and its sinks
    loop,           \* the asyncio event loop of the service and its tasks
    metrics_collector,  \* metrics_service.metrics_collector
    alerting_system     \* metrics_service.alerting_system

vars == <<model_trained, forest, now, last, again, det, scanner, loop,
          metrics_collector, alerting_system>>

\* the metrics service
metricsVars == <<metrics_collector, alerting_system>>

svcVars == <<model_trained, forest, now, last, again>>

(***************************************************************************)
(* Bounds of the model.                                                    *)
(***************************************************************************)
MaxClock == 1       \* the clock runs 0..MaxClock
MaxHistory == 1     \* longest user_history of a request
MaxSurround == 4    \* longest surrounding_txs given to MEVDetector
MaxRecent == 3      \* longest recent_txs given to PatternDetector
MaxMempool == 5     \* longest mempool_txs given to detect_mev_attack
MaxBurst == 11      \* most history entries of the last minutes
MaxScans == 2       \* security scans run
MaxThreats == 2     \* most threats found by one scan
MaxSinkFailures == 2    \* most webhook posts that fail before the sink recovers

(***************************************************************************)
(* Program constants.                                                      *)
(***************************************************************************)
MinTrainSize == 10          \* train: len(transactions) < 10 returns
LargeAmount == 1000000      \* detect_flash_loan: amount > 1000000
ZeroSlippage == 10          \* detect_flash_loan: slippage < 0.001
ComplexRoute == 4           \* detect_flash_loan: route_length > 4
HighGas == 100              \* detect_mev_attack: gas_price > 100
SamePairMin == 3            \* detect_mev_attack: len(same_pair_txs) > 3
WFlashLoan == 1500          \* risk_score += 0.15
WMev == 2500                \* risk_score += 0.25
WRapid == 1000              \* risk_score += 0.10
WInactive == 500            \* risk_score += 0.05
AnomalyCut == 700           \* anomaly_score > 0.7
AnomalyHigh == 850          \* 'high' if anomaly_score > 0.85
AnomalyWeight == 3          \* anomaly_score * 0.3
ScoreCap == 10000           \* min(1.0, risk_score)
CutLow == 3000              \* risk_score < 0.3
CutMedium == 5000           \* risk_score < 0.5
CutHigh == 7000             \* risk_score < 0.7
CutCritical == 8500         \* risk_score < 0.85
HighSlippage == 500         \* detect_anomalies: slippage > 0.05
LongRoute == 5              \* detect_anomalies: route_length > 5
InactiveHours == 48         \* detect_unusual_patterns: time_gap > 48
RapidWindow == 300          \* detect_unusual_patterns: total_seconds() < 300
RapidCount == 10            \* detect_unusual_patterns: len(recent_txs) > 10
SandwichWindow == 30        \* PatternDetector.detect_sandwich_attack: time_diff > 30
ScanInterval == 300         \* scanner: SCAN_INTERVAL, seconds between scans

(***************************************************************************)
(* Python helpers.                                                         *)
(***************************************************************************)
\* dict.get(key, default)
Get(d, k, default) == IF k \in DOMAIN d THEN d[k] ELSE default

Min(a, b) == IF a < b THEN a ELSE b

\* sum(...) over a sequence of integers
RECURSIVE Sum(_)
Sum(s) == IF s = <<>> THEN 0 ELSE Head(s) + Sum(Tail(s))

\* sorted(s, key=lambda x: x['timestamp']): stable, ascending
RECURSIVE InsertByTime(_, _)
InsertByTime(x, s) ==
    IF s = <<>> THEN <<x>>
    ELSE IF Head(s).timestamp <= x.timestamp
         THEN <<Head(s)>> \o InsertByTime(x, Tail(s))
         ELSE <<x>> \o s

RECURSIVE SortedByTime(_)
SortedByTime(s) ==
    IF s = <<>> THEN <<>>
    ELSE InsertByTime(s[Len(s)], SortedByTime(SubSeq(s, 1, Len(s) - 1)))

\* all sequences over S of length at most n
SeqUpTo(S, n) == UNION {[1..k -> S] : k \in 0..n}

(***************************************************************************)
(* Inputs.  Option(S) models Optional[...]: None is {}, a value v is {v}.  *)
(***************************************************************************)
None == {}

Some(v) == {v}

TheValue(opt) == CHOOSE v \in opt : TRUE

\* Transaction, as tx.dict() gives it to the detectors.  from_address and
\* to_address are read by no detector and are left out.  The field amount
\* is declared float: amount_type records that the value is a Python float,
\* which str() prints as '2000000.0'.
Transactions ==
    [tx_hash : {"0xabc"},
     amount : {LargeAmount, 2 * LargeAmount},
     amount_type : {"float"},
     token_pair : {"ETH/USDC"},
     timestamp : {0},
     gas_price : {HighGas + 400},
     slippage : {1},
     route_length : {6},
     contract_interaction : {TRUE}]
    \cup {[tx_hash |-> "0xsus", amount |-> 1000 * LargeAmount, amount_type |-> "float",
            token_pair |-> "ETH/USDC", timestamp |-> 0, gas_price |-> HighGas + 400,
            slippage |-> 0, route_length |-> 6, contract_interaction |-> TRUE]}

\* The members of user_history are Transaction objects (pydantic models),
\* not dicts.  The one of the model is 48 hours and a second old at clock 0.
HistoryTransactions ==
    [tx_hash : {"0xold"},
     amount : {LargeAmount},
     amount_type : {"float"},
     token_pair : {"ETH/USDC"},
     timestamp : {-(InactiveHours * 3600) - 1},
     gas_price : {HighGas},
     slippage : {ZeroSlippage},
     route_length : {1},
     contract_interaction : {FALSE}]

\* RiskAssessmentRequest
Requests ==
    [transaction : Transactions,
     user_history : {None} \cup {Some(h) : h \in SeqUpTo(HistoryTransactions, MaxHistory)},
     check_patterns : BOOLEAN,
     check_network : BOOLEAN,
     check_contract : BOOLEAN]

(***************************************************************************)
(* AnomalyDetector.                                                        *)
(***************************************************************************)
NoForest == [split |-> 0, lo |-> 0, hi |-> 0]

\* What IsolationForest.fit can leave behind.  The library's forest is kept
\* as one split on the time feature with a score on either side: scores of
\* score_samples lie in [-1, 0).
Forests ==
    {[split |-> 1, lo |-> -400, hi |-> -402],
     [split |-> 1, lo |-> -1000, hi |-> -2],
     [split |-> 1, lo |-> -702, hi |-> -702]}

\* extract_features, for one transaction read at clock value t
extract_features(tx, t) ==
    <<Get(tx, "amount", 0),
      Get(tx, "gas_price", 0),
      Get(tx, "slippage", 0),
      Get(tx, "route_length", 1),
      IF Get(tx, "contract_interaction", FALSE) THEN 1 ELSE 0,
      t - Get(tx, "timestamp", t)>>

\* isolation_forest.score_samples(X_scaled)[0]
score_samples(f, X) == IF X[6] < f.split THEN f.lo ELSE f.hi

\* anomaly_score = -score; anomaly_score = (anomaly_score + 1) / 2
NormalizeScore(raw) == (-raw + 1000) \div 2

\* the issues list of detect_anomalies; np.percentile of the one-element
\* list [gas_price] is gas_price itself
AnomalyIssues(tx) ==
    (IF Get(tx, "slippage", 0) > HighSlippage THEN <<"high_slippage">> ELSE <<>>)
    \o (IF Get(tx, "gas_price", 0) > Get(tx, "gas_price", 0)
        THEN <<"unusual_gas_price">> ELSE <<>>)
    \o (IF Get(tx, "route_length", 1) > LongRoute THEN <<"complex_route">> ELSE <<>>)

detect_anomalies_untrained_scores(tx, t, trained, f) ==
    <<NormalizeScore(score_samples(f, extract_features(tx, t))), AnomalyIssues(tx)>>

\* detect_anomalies: <<anomaly_score, issues>>
detect_anomalies(tx, t, trained, f) ==
    IF ~trained THEN <<0, <<>>>>
    ELSE <<NormalizeScore(score_samples(f, extract_features(tx, t))), AnomalyIssues(tx)>>

(***************************************************************************)
(* PatternDetector.                                                        *)
(***************************************************************************)
detect_flash_loan_inclusive(tx) ==
    /\ Get(tx, "amount", 0) >= LargeAmount
    /\ Get(tx, "slippage", 0) <= ZeroSlippage
    /\ Get(tx, "route_length", 1) >= ComplexRoute

detect_flash_loan(tx) ==
    LET is_large_amount == Get(tx, "amount", 0) > LargeAmount
        is_zero_slippage == Get(tx, "slippage", 0) < ZeroSlippage
        is_complex == Get(tx, "route_length", 1) > ComplexRoute
    IN  is_large_amount /\ is_zero_slippage /\ is_complex

\* t.get('token_pair') == tx.get('token_pair'); a missing key reads as None
SamePair(tx, t) == Get(t, "token_pair", "None") = Get(tx, "token_pair", "None")

detect_mev_attack(tx, mempool_txs) ==
    LET high_gas == Get(tx, "gas_price", 0) > HighGas
        same_pair_txs == SelectSeq(mempool_txs, LAMBDA t : SamePair(tx, t))
    IN  high_gas /\ Len(same_pair_txs) > SamePairMin

\* str(current_tx.get('amount', 0)).endswith('000'): true of an int that is
\* a multiple of 1000 and not 0, never of a float ('1000.0', '1e+16')
RoundAmount(current_tx) ==
    LET a == Get(current_tx, "amount", 0)
    IN  /\ Get(current_tx, "amount_type", "int") = "int"
        /\ a # 0 /\ a % 1000 = 0

detect_unusual_patterns_inclusive(current_tx, user_history, t) ==
    IF user_history = <<>> THEN <<>>
    ELSE
      LET asc == SortedByTime(user_history)
          last_tx_time == asc[Len(asc)].timestamp
          amounts == [i \in 1..Len(asc) |-> Get(asc[i], "amount", 0)]
          inactive == /\ t - last_tx_time >= InactiveHours * 3600
                      /\ Get(current_tx, "amount", 0) * Len(asc) >= Sum(amounts)
          recent_txs == SelectSeq(asc, LAMBDA h : t - h.timestamp <= RapidWindow)
      IN  (IF inactive THEN <<"unusual_after_inactivity">> ELSE <<>>)
          \o (IF Len(recent_txs) >= RapidCount THEN <<"rapid_trading">> ELSE <<>>)
          \o (IF RoundAmount(current_tx) THEN <<"round_amount">> ELSE <<>>)

\* detect_unusual_patterns on dicts, read at clock value t (seconds)
detect_unusual_patterns(current_tx, user_history, t) ==
    IF user_history = <<>> THEN <<>>
    ELSE
      LET asc == SortedByTime(user_history)
          last_tx_time == asc[Len(asc)].timestamp
          amounts == [i \in 1..Len(asc) |-> Get(asc[i], "amount", 0)]
          \* time_gap > 48 (hours), amount > np.mean(amounts)
          inactive == /\ t - last_tx_time > InactiveHours * 3600
                      /\ Get(current_tx, "amount", 0) * Len(asc) > Sum(amounts)
          recent_txs == SelectSeq(asc, LAMBDA h : t - h.timestamp < RapidWindow)
      IN  (IF inactive THEN <<"unusual_after_inactivity">> ELSE <<>>)
          \o (IF Len(recent_txs) > RapidCount THEN <<"rapid_trading">> ELSE <<>>)
          \o (IF RoundAmount(current_tx) THEN <<"round_amount">> ELSE <<>>)

(***************************************************************************)
(* FraudDetectionService.assess_risk.                                      *)
(***************************************************************************)
\* AnomalyAlert (recommended_action is a fixed text per description)
Alert(type, level, confidence, description) ==
    [alert_type |-> type, risk_level |-> level,
     confidence |-> confidence, description |-> description]

FlashLoanAlert == Alert("flash_loan", "medium", 750, "Potential flash loan usage detected")

MevAlert == Alert("mev", "high", 700, "Potential MEV/sandwich attack detected")

RapidAlert == Alert("unusual_pattern", "medium", 650, "Rapid trading detected")

InactiveAlert == Alert("unusual_pattern", "low", 500, "Large trade after inactivity")

ContractRiskAlert(anomaly_score) ==
    Alert("contract_risk",
          IF anomaly_score > AnomalyHigh THEN "high" ELSE "medium",
          anomaly_score, "Anomalous transaction detected")

AddWeightNegated(risk_score, weight) == risk_score - weight

AddWeightTwice(risk_score, weight) == risk_score + 2 * weight

\* risk_score += weight
AddWeight(risk_score, weight) == risk_score + weight

\* risk_score += anomaly_score * 0.3
AnomalyContribution(anomaly_score) == anomaly_score * AnomalyWeight

AnomalyContributesInclusive(anomaly_score) == anomaly_score >= AnomalyCut

\* if anomaly_score > 0.7
AnomalyContributes(anomaly_score) == anomaly_score > AnomalyCut

\* risk_score = min(1.0, risk_score)
ClampScore(risk_score) == Min(ScoreCap, risk_score)

RiskLevelInclusive(risk_score) ==
    IF risk_score <= CutLow THEN "safe"
    ELSE IF risk_score <= CutMedium THEN "low"
    ELSE IF risk_score <= CutHigh THEN "medium"
    ELSE IF risk_score <= CutCritical THEN "high"
    ELSE "critical"

\* the if/elif chain on risk_score
RiskLevel(risk_score) ==
    IF risk_score < CutLow THEN "safe"
    ELSE IF risk_score < CutMedium THEN "low"
    ELSE IF risk_score < CutHigh THEN "medium"
    ELSE IF risk_score < CutCritical THEN "high"
    ELSE "critical"

\* request.user_history or []
HistoryOf(request) ==
    IF request.user_history = None THEN <<>> ELSE TheValue(request.user_history)

\* t.get(...) and x['timestamp'] on a Transaction object raise (AttributeError,
\* TypeError): a detector given a non-empty list of objects raises.
ObjectsRaise(txs) == txs # <<>>

FlashLoanStepHeavy(request, acc) ==
    IF request.check_contract /\ detect_flash_loan(request.transaction)
    THEN <<AddWeight(acc[1], 5 * WFlashLoan), Append(acc[2], FlashLoanAlert)>>
    ELSE acc

FlashLoanStepUngated(request, acc) ==
    IF detect_flash_loan(request.transaction)
    THEN <<AddWeight(acc[1], WFlashLoan), Append(acc[2], FlashLoanAlert)>>
    ELSE acc

\* The flash-loan step: <<risk_score, alerts>> after it.
FlashLoanStep(request, acc) ==
    IF request.check_contract /\ detect_flash_loan(request.transaction)
    THEN <<AddWeight(acc[1], WFlashLoan), Append(acc[2], FlashLoanAlert)>>
    ELSE acc

MevRaises(request) == request.check_contract /\ ObjectsRaise(HistoryOf(request))

MevStep(request, acc) ==
    IF request.check_contract
       /\ detect_mev_attack(request.transaction, HistoryOf(request))
    THEN <<AddWeight(acc[1], WMev), Append(acc[2], MevAlert)>>
    ELSE acc

PatternRaises(request) == request.check_patterns /\ ObjectsRaise(HistoryOf(request))

PatternStep(request, acc, t) ==
    IF request.check_patterns /\ HistoryOf(request) # <<>>
    THEN
      LET pattern_alerts == detect_unusual_patterns(request.transaction, HistoryOf(request), t)
          has(a) == \E i \in 1..Len(pattern_alerts) : pattern_alerts[i] = a
          r == IF has("rapid_trading")
               THEN <<AddWeight(acc[1], WRapid), Append(acc[2], RapidAlert)>>
               ELSE acc
      IN  IF has("unusual_after_inactivity")
          THEN <<AddWeight(r[1], WInactive), Append(r[2], InactiveAlert)>>
          ELSE r
    ELSE acc

AnomalyStep(anomaly_score, acc) ==
    IF AnomalyContributes(anomaly_score)
    THEN <<AddWeight(acc[1], AnomalyContribution(anomaly_score)),
           Append(acc[2], ContractRiskAlert(anomaly_score))>>
    ELSE acc

\* HTTPException(status_code=500)
Failed == [status |-> "error"]

\* assess_risk at clock value t with the anomaly model (trained, f).
\* latency_ms and the response timestamp are left out; anomaly is the
\* result of detect_anomalies, kept beside the response.
assess_risk(request, t, trained, f) ==
    LET tx == request.transaction
        a1 == FlashLoanStep(request, <<0, <<>>>>)
    IN  IF MevRaises(request) THEN Failed
        ELSE LET a2 == MevStep(request, a1)
             IN  IF PatternRaises(request) THEN Failed
                 ELSE LET a3 == PatternStep(request, a2, t)
                          anomaly == detect_anomalies(tx, t, trained, f)
                          a4 == AnomalyStep(anomaly[1], a3)
                          risk_score == ClampScore(a4[1])
                      IN  [status |-> "ok",
                           tx_hash |-> tx.tx_hash,
                           risk_score |-> risk_score,
                           risk_level |-> RiskLevel(risk_score),
                           alerts |-> a4[2],
                           anomaly |-> anomaly]

(***************************************************************************)
(* The service as a state machine.                                         *)
(***************************************************************************)
NoCall == [status |-> "none"]

Init ==
    /\ model_trained = FALSE
    /\ forest = NoForest
    /\ now = 0
    /\ last = NoCall
    /\ again = NoCall
    /\ det = [fn |-> "none"]
    /\ scanner = [pc |-> "off"]
    /\ loop = [pc |-> "off"]
    /\ metrics_collector = [pc |-> "off"]
    /\ alerting_system = [pc |-> "off"]

\* time passes
Tick ==
    /\ now < MaxClock
    /\ now' = now + 1
    /\ UNCHANGED <<model_trained, forest, last, again, det, scanner, loop, metricsVars>>

\* AnomalyDetector.train on n transactions, the fit leaving forest f
Train(n, f) ==
    /\ IF n < MinTrainSize
       THEN UNCHANGED <<model_trained, forest>>
       ELSE model_trained' = TRUE /\ forest' = f
    /\ UNCHANGED <<now, last, again, det, scanner, loop, metricsVars>>

Call(request, t, trained, f) ==
    [status |-> "called", request |-> request, at |-> t,
     trained |-> trained, forest |-> f,
     out |-> assess_risk(request, t, trained, f)]

\* POST /assess-risk
AssessRisk(request) ==
    /\ last' = Call(request, now, model_trained, forest)
    /\ again' = NoCall
    /\ UNCHANGED <<model_trained, forest, now, det, scanner, loop, metricsVars>>

\* the same request once more
AssessAgain ==
    /\ last.status = "called"
    /\ again' = Call(last.request, now, model_trained, forest)
    /\ UNCHANGED <<model_trained, forest, now, last, det, scanner, loop, metricsVars>>

Next ==
    \/ Tick
    \/ \E n \in {MinTrainSize - 1, MinTrainSize}, f \in Forests : Train(n, f)
    \/ \E request \in Requests : AssessRisk(request)
    \/ AssessAgain

Spec == Init /\ [][Next]_vars

(***************************************************************************)
(* Properties of assess_risk.                                              *)
(***************************************************************************)
\* the call returned a RiskAssessmentResponse
Answered(c) == c.status = "called" /\ c.out.status = "ok"

HasAlert(out, type) == \E i \in 1..Len(out.alerts) : out.alerts[i].alert_type = type

CountAlerts(out, type) ==
    Cardinality({i \in 1..Len(out.alerts) : out.alerts[i].alert_type = type})

\* the weight table of the aggregation, per finding
WeightOf(alert) ==
    CASE alert.alert_type = "flash_loan" -> WFlashLoan
      [] alert.alert_type = "mev" -> WMev
      [] alert.alert_type = "unusual_pattern"
         /\ alert.description = "Rapid trading detected" -> WRapid
      [] alert.alert_type = "unusual_pattern"
         /\ alert.description = "Large trade after inactivity" -> WInactive
      [] alert.alert_type = "contract_risk" -> alert.confidence * AnomalyWeight
      [] OTHER -> 0

\* the sum of the weights of the findings other than contract_risk
PatternWeights(out) ==
    Sum([i \in 1..Len(out.alerts) |->
            IF out.alerts[i].alert_type = "contract_risk" THEN 0
            ELSE WeightOf(out.alerts[i])])

AllWeights(out) == Sum([i \in 1..Len(out.alerts) |-> WeightOf(out.alerts[i])])

ScoreInRange(c) == Answered(c) => 0 <= c.out.risk_score /\ c.out.risk_score <= ScoreCap

\* C1: every answered assess_risk call returns 0 <= risk_score <= 1.
C1_ScoreInRange == ScoreInRange(last) /\ ScoreInRange(again)

\* a trained call that raised a flash_loan and a contract_risk finding
C1_Witness ==
    /\ Answered(last) /\ last.trained
    /\ HasAlert(last.out, "flash_loan") /\ HasAlert(last.out, "contract_risk")
    /\ last.out.risk_score > CutLow

LevelRank(level) ==
    CASE level = "safe" -> 0 [] level = "low" -> 1 [] level = "medium" -> 2
      [] level = "high" -> 3 [] level = "critical" -> 4

LevelByCutoffs(score, level) ==
    /\ level = "safe" <=> score < CutLow
    /\ level = "low" <=> (CutLow <= score /\ score < CutMedium)
    /\ level = "medium" <=> (CutMedium <= score /\ score < CutHigh)
    /\ level = "high" <=> (CutHigh <= score /\ score < CutCritical)
    /\ level = "critical" <=> score >= CutCritical

\* 0, 1 and every cutoff with its two neighbours
ProbeScores ==
    {0, ScoreCap}
    \cup {c + d : c \in {CutLow, CutMedium, CutHigh, CutCritical}, d \in {-1, 0, 1}}

LevelMatches(c) == Answered(c) => LevelByCutoffs(c.out.risk_score, c.out.risk_level)

\* C2: the risk_level of every answered call is given by its risk_score
\* through the cutoffs 0.3 / 0.5 / 0.7 / 0.85, a score on a cutoff taking the
\* higher level; on and beside every cutoff the if/elif chain follows the same
\* table and never gives a higher score a lower level.
C2_LevelByCutoffs ==
    /\ LevelMatches(last) /\ LevelMatches(again)
    /\ \A s \in ProbeScores : LevelByCutoffs(s, RiskLevel(s))
    /\ \A s, s2 \in ProbeScores :
         s <= s2 => LevelRank(RiskLevel(s)) <= LevelRank(RiskLevel(s2))

\* an answered call whose score is exactly 0.3, level low
C2_Witness ==
    Answered(last) /\ last.out.risk_score = CutLow /\ last.out.risk_level = "low"

SameModel == again.trained = last.trained /\ again.forest = last.forest

\* C3: two assess_risk calls with the same request and an unchanged anomaly
\* model return the same risk_score and risk_level, whatever the time of each.
C3_Deterministic ==
    (Answered(last) /\ Answered(again) /\ SameModel) =>
        /\ again.out.risk_score = last.out.risk_score
        /\ again.out.risk_level = last.out.risk_level

ScoreIsSum(c) ==
    Answered(c) =>
        /\ c.out.risk_score = Min(ScoreCap, AllWeights(c.out))
        /\ \A type \in {"flash_loan", "mev", "contract_risk"} : CountAlerts(c.out, type) <= 1
        /\ CountAlerts(c.out, "unusual_pattern") <= 2
        /\ \A i, j \in 1..Len(c.out.alerts) : c.out.alerts[i] = c.out.alerts[j] => i = j

\* C4: the risk_score of every answered call is min(1, S), S the sum of the
\* fixed weight of each finding in the assessment (contract_risk counting
\* anomaly_score * 0.3), and no finding is listed twice.
C4_ScoreIsSum == ScoreIsSum(last) /\ ScoreIsSum(again)

\* flash_loan and contract_risk together: 0.15 + 0.701 * 0.3
C4_Witness ==
    /\ Answered(again) /\ Len(again.out.alerts) = 2
    /\ HasAlert(again.out, "flash_loan")
    /\ again.out.risk_score = WFlashLoan + (AnomalyCut + 1) * AnomalyWeight

AnomalyRule(c) ==
    Answered(c) =>
        LET a == c.out.anomaly[1]
        IN  /\ HasAlert(c.out, "contract_risk") <=> a > AnomalyCut
            /\ c.out.risk_score =
                 Min(ScoreCap, PatternWeights(c.out)
                               + (IF a > AnomalyCut THEN a * AnomalyWeight ELSE 0))

\* C5: the anomaly score adds anomaly_score * 0.3 to the score if and only if
\* it is strictly above 0.7, and a contract_risk finding is present exactly then.
C5_AnomalyRule == AnomalyRule(last) /\ AnomalyRule(again)

\* anomaly score exactly 0.7 adds nothing; the same request a second later
\* scores 0.701 and contributes
C5_Witness ==
    /\ Answered(last) /\ last.out.anomaly[1] = AnomalyCut
    /\ ~HasAlert(last.out, "contract_risk")
    /\ Answered(again) /\ again.out.anomaly[1] = AnomalyCut + 1
    /\ HasAlert(again.out, "contract_risk")
    /\ again.out.risk_score = last.out.risk_score + (AnomalyCut + 1) * AnomalyWeight

Degraded(c) ==
    (c.status = "called" /\ ~c.trained) =>
        /\ \A f \in Forests : assess_risk(c.request, c.at, TRUE, f).status = c.out.status
        /\ c.out.status = "ok" =>
             /\ c.out.anomaly = <<0, <<>>>>
             /\ ~HasAlert(c.out, "contract_risk")
             /\ c.out.risk_score = PatternWeights(c.out)
             /\ c.out.risk_level = RiskLevel(PatternWeights(c.out))

IsFlashLoanCase(tx) ==
    tx.amount = 2000000 /\ tx.slippage = 1 /\ tx.route_length = 6

FlashAlways(c) ==
    (c.status = "called" /\ IsFlashLoanCase(c.request.transaction)) =>
        Answered(c) /\ HasAlert(c.out, "flash_loan")

FlashWhenChecked(c) ==
    (Answered(c) /\ IsFlashLoanCase(c.request.transaction)) =>
        (HasAlert(c.out, "flash_loan") <=> c.request.check_contract)

CountLargerThanTarget(txs, target_amount) ==
    Len(SelectSeq(txs, LAMBDA tx : Get(tx, "amount", 0) > target_amount))

CountLarge(txs, target_amount) ==
    Len(SelectSeq(txs, LAMBDA tx : 2 * Get(tx, "amount", 0) > target_amount))

mev_detect_sandwich_attack_inclusive(target_tx, surrounding_txs, clock) ==
    LET target_amount == Get(target_tx, "amount", 0)
        target_time == Get(target_tx, "timestamp", clock[1])
        before == SelectSeq(surrounding_txs,
                            LAMBDA tx : Get(tx, "timestamp", clock[2]) <= target_time)
        after == SelectSeq(surrounding_txs,
                           LAMBDA tx : Get(tx, "timestamp", clock[3]) >= target_time)
        large_before == CountLarge(before, target_amount)
        large_after == CountLarge(after, target_amount)
    IN  <<large_before > 0 /\ large_after > 0,
          IF large_before > 1 /\ large_after > 1 THEN 700 ELSE 500>>

mev_detect_sandwich_attack_either_side(target_tx, surrounding_txs, clock) ==
    LET target_amount == Get(target_tx, "amount", 0)
        target_time == Get(target_tx, "timestamp", clock[1])
        before == SelectSeq(surrounding_txs,
                            LAMBDA tx : Get(tx, "timestamp", clock[2]) < target_time)
        after == SelectSeq(surrounding_txs,
                           LAMBDA tx : Get(tx, "timestamp", clock[3]) > target_time)
        large_before == CountLarge(before, target_amount)
        large_after == CountLarge(after, target_amount)
    IN  <<large_before > 0 /\ large_after > 0,
          IF large_before > 1 \/ large_after > 1 THEN 700 ELSE 500>>

mev_detect_sandwich_attack(target_tx, surrounding_txs, clock) ==
    LET target_amount == Get(target_tx, "amount", 0)
        target_time == Get(target_tx, "timestamp", clock[1])
        before == SelectSeq(surrounding_txs,
                            LAMBDA tx : Get(tx, "timestamp", clock[2]) < target_time)
        after == SelectSeq(surrounding_txs,
                           LAMBDA tx : Get(tx, "timestamp", clock[3]) > target_time)
        large_before == CountLarge(before, target_amount)
        large_after == CountLarge(after, target_amount)
        is_sandwich == large_before > 0 /\ large_after > 0
        confidence == IF large_before > 1 /\ large_after > 1 THEN 700 ELSE 500
    IN  <<is_sandwich, confidence>>

\* PatternDetector.detect_sandwich_attack: the loop over the triples of the
\* time-sorted recent_txs
pattern_detect_sandwich_attack(current_tx, recent_txs) ==
    IF Len(recent_txs) < 2 THEN FALSE
    ELSE
      LET sorted_txs == SortedByTime(recent_txs)
      IN  \E i \in 1..(Len(sorted_txs) - 2) :
            LET tx1 == sorted_txs[i]
                tx3 == sorted_txs[i + 2]
                time_diff == tx3.timestamp - tx1.timestamp
            IN  /\ ~(time_diff > SandwichWindow)
                /\ Get(tx1, "amount", 0) > Get(current_tx, "amount", 0)
                /\ Get(tx3, "amount", 0) > Get(current_tx, "amount", 0)

(***************************************************************************)
(* Direct calls of the detectors, on dicts.                                *)
(***************************************************************************)
EmptyDict == [k \in {} |-> 0]

\* one key of a dict, present or not
Field(k, opt) == IF opt = None THEN EmptyDict ELSE k :> TheValue(opt)

Opt(S) == {None} \cup {Some(v) : v \in S}

FlashLoanInputs ==
    {Field("amount", a) @@ Field("slippage", sl) @@ Field("route_length", r) :
        a \in Opt({LargeAmount - 1, LargeAmount, LargeAmount + 1, 2 * LargeAmount}),
        sl \in Opt({0, 1, ZeroSlippage - 1, ZeroSlippage, ZeroSlippage + 1}),
        r \in Opt({ComplexRoute, ComplexRoute + 1, 6})}

TxAt(amount, timestamp) == [amount |-> amount, timestamp |-> timestamp]

\* target transactions: amount 100 at t = 0, without a timestamp, without an amount
TargetInputs ==
    {[amount |-> 100, gas_price |-> 100, timestamp |-> 0],
     [amount |-> 100, gas_price |-> 100],
     [gas_price |-> 100, timestamp |-> 0]}

SurroundingInputs ==
    {TxAt(60, -5), TxAt(80, 5), TxAt(50, -5), TxAt(120, 0),
     TxAt(120, -40), TxAt(120, 40), [amount |-> 60]}

\* successive readings of the clock
ClockInputs == {<<0, 0, 0>>, <<0, 0, 1>>, <<0, 1, 1>>}

RecentInputs == {TxAt(a, t) : a \in {100, 120}, t \in {0, 15, 31}}

\* transactions given to detect_mev_attack: gas price on and above the
\* threshold, without a gas price, without a token pair
MevTxInputs ==
    {[tx_hash |-> "0xabc", token_pair |-> "ETH/USDC", gas_price |-> g] :
        g \in {HighGas, HighGas + 1}}
    \cup {[tx_hash |-> "0xabc", token_pair |-> "ETH/USDC"],
          [tx_hash |-> "0xabc", gas_price |-> HighGas + 1]}

\* what mempool_txs may hold beside tx: tx itself, another transaction of
\* the same pair, one of another pair, one without a pair
MempoolInputs(tx) ==
    {tx,
     [tx_hash |-> "0x1", token_pair |-> "ETH/USDC", gas_price |-> 1],
     [tx_hash |-> "0x2", token_pair |-> "BTC/USDC", gas_price |-> 1],
     [tx_hash |-> "0x3", gas_price |-> 1]}

Repeat(x, n) == [i \in 1..n |-> x]

\* history entries more than, and exactly, 48 hours old at clock value 0
OldInputs == {TxAt(a, -(InactiveHours * 3600) - d) : a \in {100, 200, 300}, d \in {0, 1}}

\* the histories given to detect_unusual_patterns at clock value 0: up to
\* two old entries, n entries 299 seconds old and b entries exactly 300
\* seconds old, the old or the new ones first
HistoryInputs ==
    {IF old_first THEN old \o new ELSE new \o old :
        old \in SeqUpTo(OldInputs, 2),
        new \in {Repeat(TxAt(100, 1 - RapidWindow), n) \o Repeat(TxAt(100, -RapidWindow), b) :
                    n \in 0..MaxBurst, b \in 0..1},
        old_first \in BOOLEAN}

(***************************************************************************)
(* The aggregation of assess_risk at the precision of Python's float.      *)
(* A float x in [0, 2) is the pair <<hi, lo>> with                         *)
(* x = (hi * 2^29 + lo) / 2^57, lo < 2^29; every double from 2^-5 up is    *)
(* such a pair.  0.15 is <<40265318, 214748364>>.                          *)
(***************************************************************************)
\* the literals 0.15, 0.25, 0.10, 0.05 of the risk_score += lines
FloatFlashLoan == <<40265318, 214748364>>

FloatMev == <<67108864, 0>>

FloatRapid == <<26843545, 322122548>>

FloatInactive == <<13421772, 429496730>>

\* anomaly_score * 0.3 for the anomaly scores 1.0, 0.9 and 0.75:
\* 0.3, 0.27 and 0.22499999999999998
AnomalyProducts ==
    {<<80530636, 429496728>>, <<72477573, 64424512>>, <<60397977, 322122544>>}

\* the literals 0.3, 0.5, 0.7, 0.85 of the if/elif chain and 1.0 of min
FloatCutLow == <<80530636, 429496728>>

FloatCutMedium == <<134217728, 0>>

FloatCutHigh == <<187904819, 107374176>>

FloatCutCritical == <<228170137, 322122544>>

FloatOne == <<268435456, 0>>

FloatZero == <<0, 0>>

\* the spacing of the doubles around hi * 2^-28, in units of 2^-57
UlpAt(hi) ==
    IF hi >= 2^28 THEN 32
    ELSE IF hi >= 2^27 THEN 16
    ELSE IF hi >= 2^26 THEN 8
    ELSE IF hi >= 2^25 THEN 4
    ELSE IF hi >= 2^24 THEN 2
    ELSE 1

\* a + b on floats: the exact sum rounded to the nearest double, a tie to
\* the even one
FloatAdd(a, b) ==
    LET lo_sum == a[2] + b[2]
        hi == a[1] + b[1] + (IF lo_sum >= 2^29 THEN 1 ELSE 0)
        lo == lo_sum % 2^29
        u == UlpAt(hi)
        r == lo % u
        down == lo - r
        up == 2 * r > u \/ (2 * r = u /\ (down \div u) % 2 = 1)
    IN  IF ~up THEN <<hi, down>>
        ELSE IF down + u = 2^29 THEN <<hi + 1, 0>>
        ELSE <<hi, down + u>>

\* a < b on floats
FloatLess(a, b) == a[1] < b[1] \/ (a[1] = b[1] /\ a[2] < b[2])

\* risk_score = 0.0, then risk_score += w for each contribution in turn
RECURSIVE FloatSum(_)
FloatSum(weights) ==
    IF weights = <<>> THEN FloatZero
    ELSE FloatAdd(FloatSum(SubSeq(weights, 1, Len(weights) - 1)), weights[Len(weights)])

\* risk_score = min(1.0, risk_score)
FloatClamp(risk_score) == IF FloatLess(FloatOne, risk_score) THEN FloatOne ELSE risk_score

\* the if/elif chain on the float risk_score
FloatRiskLevel(risk_score) ==
    IF FloatLess(risk_score, FloatCutLow) THEN "safe"
    ELSE IF FloatLess(risk_score, FloatCutMedium) THEN "low"
    ELSE IF FloatLess(risk_score, FloatCutHigh) THEN "medium"
    ELSE IF FloatLess(risk_score, FloatCutCritical) THEN "high"
    ELSE "critical"

\* risk_score and risk_level of the contributions added in the given order
Aggregate(weights) ==
    LET risk_score == FloatClamp(FloatSum(weights))
    IN  [risk_score |-> risk_score, risk_level |-> FloatRiskLevel(risk_score)]

\* The contributions of an assessment in the order assess_risk adds them:
\* flash loan, MEV, rapid trading, inactivity, anomaly.
ContributionInputs ==
    {SelectSeq(<<FloatFlashLoan, FloatMev, FloatRapid, FloatInactive>>,
               LAMBDA w : w \in findings)
       \o (IF anomaly = None THEN <<>> ELSE <<TheValue(anomaly)>>) :
        findings \in SUBSET {FloatFlashLoan, FloatMev, FloatRapid, FloatInactive},
        anomaly \in Opt(AnomalyProducts)}

\* the same contributions in every order
Reorderings(weights) ==
    {[i \in 1..Len(weights) |-> weights[p[i]]] : p \in Permutations(1..Len(weights))}

\* the calls of MEVDetector.detect_sandwich_attack on target_tx
SandwichInputs(target_tx) ==
    {[fn |-> "mev_detect_sandwich_attack", target_tx |-> target_tx, surrounding_txs |-> s,
      clock |-> c, result |-> None] :
        s \in SeqUpTo(SurroundingInputs, MaxSurround), c \in ClockInputs}

DetectorInputs ==
    {[fn |-> "detect_flash_loan", tx |-> tx, result |-> None] : tx \in FlashLoanInputs}
    \cup {[fn |-> "pattern_detect_sandwich_attack", current_tx |-> TxAt(100, 15),
           recent_txs |-> r, result |-> None] :
            r \in SeqUpTo(RecentInputs, MaxRecent)}

\* the calls of detect_unusual_patterns at clock value 0, for an amount
\* that is not round and one that is
UnusualPatternInputs ==
    {[fn |-> "detect_unusual_patterns", current_tx |-> [amount |-> a],
      user_history |-> h, clock |-> 0, result |-> None] :
        a \in {200, 3000}, h \in Opt(HistoryInputs)}

\* the calls of detect_mev_attack on tx
MevAttackInputs(tx) ==
    {[fn |-> "detect_mev_attack", tx |-> tx, mempool_txs |-> m, result |-> None] :
        m \in SeqUpTo(MempoolInputs(tx), MaxMempool)}

\* the aggregations of the contributions w, in the code's and another order
AggregateInputs(w) ==
    {[fn |-> "aggregate", weights |-> w, reordered |-> r, result |-> None] :
        r \in Reorderings(w)}

\* AnomalyDetector.extract_features of tx, once at each of two clock values
FeatureInputs ==
    {[fn |-> "extract_features", tx |-> Field("amount", Some(5)) @@ Field("timestamp", ts),
      clocks |-> c, result |-> None] :
        ts \in Opt({0}), c \in {<<0, 0>>, <<0, 1>>, <<1, 1>>}}

(***************************************************************************)
(* MEVDetector.detect_liquidation_opportunity.  health_factor and the      *)
(* confidence are in 1/1000.                                               *)
(***************************************************************************)
LiquidationLimit == 1000    \* health_factor < 1.0
ConfidenceCap == 1000       \* min(1.0, ...)

detect_liquidation_opportunity_inclusive(user_address, health_factor, pool_data) ==
    IF health_factor <= LiquidationLimit
    THEN <<TRUE, Min(ConfidenceCap, LiquidationLimit - health_factor)>>
    ELSE <<FALSE, 0>>

\* <<is_liquidatable, confidence>>; potential_profit is computed and dropped
detect_liquidation_opportunity(user_address, health_factor, pool_data) ==
    IF health_factor < LiquidationLimit
    THEN <<TRUE, Min(ConfidenceCap, LiquidationLimit - health_factor)>>
    ELSE <<FALSE, 0>>

LiquidationInputs ==
    {[fn |-> "detect_liquidation_opportunity", user_address |-> "wallet_0x123",
      health_factor |-> h, pool_data |-> p, result |-> None] :
        h \in {-500, 0, 800, 999, 1000, 1001, 2000},
        p \in {EmptyDict, [user_debt |-> 10000, user_collateral |-> 12000]}}

(***************************************************************************)
(* DataQualityValidator.validate_market_data                               *)
(* (python/services/data_processing_service.py).  quality_score is in      *)
(* 1/10: the doubles that the code's subtractions of 0.2, 0.1, 0.1, 0.2    *)
(* and 0.3 from 1.0 give compare with 0.7 as the exact tenths do, for      *)
(* every subset of the five penalties.                                     *)
(***************************************************************************)
PenaltyHighLow == 2         \* High < Low: 0.2
PenaltyHigh == 1            \* High < Open or Close: 0.1
PenaltyLow == 1             \* Low > Open or Close: 0.1
PenaltyVolume == 2          \* Negative volume: 0.2
PenaltyZeroClose == 3       \* Zero close price: 0.3
FullQuality == 10           \* quality_score = 1.0
ValidQuality == 7           \* is_valid = quality_score >= 0.7

\* the issues of a data point with their penalties, in the order of the code
MarketIssues(data) ==
    LET open == Get(data, "open", 0)
        high == Get(data, "high", 0)
        low == Get(data, "low", 0)
        close == Get(data, "close", 0)
    IN  (IF high < low THEN <<<<"High < Low", PenaltyHighLow>>>> ELSE <<>>)
        \o (IF high < open \/ high < close
            THEN <<<<"High < Open or Close", PenaltyHigh>>>> ELSE <<>>)
        \o (IF low > open \/ low > close
            THEN <<<<"Low > Open or Close", PenaltyLow>>>> ELSE <<>>)
        \o (IF Get(data, "volume", 0) < 0
            THEN <<<<"Negative volume", PenaltyVolume>>>> ELSE <<>>)
        \o (IF close = 0 THEN <<<<"Zero close price", PenaltyZeroClose>>>> ELSE <<>>)

\* DataValidationResult
validate_market_data(data) ==
    LET found == MarketIssues(data)
        quality_score == FullQuality - Sum([i \in DOMAIN found |-> found[i][2]])
    IN  [is_valid |-> quality_score >= ValidQuality,
         quality_score |-> IF quality_score < 0 THEN 0 ELSE quality_score,
         issues |-> [i \in DOMAIN found |-> found[i][1]],
         recommendations |-> IF found # <<>> THEN <<"Investigate data source">>
                             ELSE <<"Data looks good">>]

\* the data points with the given open
MarketDataInputs(open) ==
    {[fn |-> "validate_market_data",
      data |-> Field("open", open) @@ Field("high", high) @@ Field("low", low)
               @@ Field("close", close) @@ Field("volume", volume),
      result |-> None] :
        high \in Opt({0, 90, 100, 110}), low \in Opt({0, 80, 90}),
        close \in Opt({0, 95, 105}), volume \in Opt({-1, 1000000})}

InitDetect ==
    /\ model_trained = FALSE
    /\ forest = NoForest
    /\ now = 0
    /\ last = NoCall
    /\ again = NoCall
    /\ \/ det \in DetectorInputs
       \/ \E target_tx \in TargetInputs : det \in SandwichInputs(target_tx)
       \/ det \in UnusualPatternInputs
       \/ \E tx \in MevTxInputs : det \in MevAttackInputs(tx)
       \/ \E w \in ContributionInputs : det \in AggregateInputs(w)
       \/ det \in FeatureInputs
       \/ det \in LiquidationInputs
       \/ \E open \in Opt({100}) : det \in MarketDataInputs(open)
    /\ scanner = [pc |-> "off"]
    /\ loop = [pc |-> "off"]
    /\ metrics_collector = [pc |-> "off"]
    /\ alerting_system = [pc |-> "off"]

Pending(fn) == det.fn = fn /\ det.result = None

DetectFlashLoan ==
    /\ Pending("detect_flash_loan")
    /\ det' = [det EXCEPT !.result = Some(detect_flash_loan(det.tx))]
    /\ UNCHANGED <<svcVars, scanner, loop, metricsVars>>

MevDetectSandwich ==
    /\ Pending("mev_detect_sandwich_attack")
    /\ det' = [det EXCEPT !.result =
                 Some(mev_detect_sandwich_attack(det.target_tx, det.surrounding_txs, det.clock))]
    /\ UNCHANGED <<svcVars, scanner, loop, metricsVars>>

PatternDetectSandwich ==
    /\ Pending("pattern_detect_sandwich_attack")
    /\ det' = [det EXCEPT !.result =
                 Some(pattern_detect_sandwich_attack(det.current_tx, det.recent_txs))]
    /\ UNCHANGED <<svcVars, scanner, loop, metricsVars>>

DetectMevAttack ==
    /\ Pending("detect_mev_attack")
    /\ det' = [det EXCEPT !.result = Some(detect_mev_attack(det.tx, det.mempool_txs))]
    /\ UNCHANGED <<svcVars, scanner, loop, metricsVars>>

\* if not user_history
OrEmpty(opt) == IF opt = None THEN <<>> ELSE TheValue(opt)

DetectUnusualPatterns ==
    /\ Pending("detect_unusual_patterns")
    /\ det' = [det EXCEPT !.result =
                 Some(detect_unusual_patterns(det.current_tx, OrEmpty(det.user_history),
                                              det.clock))]
    /\ UNCHANGED <<svcVars, scanner, loop, metricsVars>>

\* the aggregation of assess_risk on det.weights, and on the same
\* contributions added in the order det.reordered
AggregateBothOrders ==
    /\ Pending("aggregate")
    /\ det' = [det EXCEPT !.result = Some(<<Aggregate(det.weights),
                                            Aggregate(det.reordered)>>)]
    /\ UNCHANGED <<svcVars, scanner, loop, metricsVars>>

\* extract_features of the same transaction at two clock values
ExtractFeaturesTwice ==
    /\ Pending("extract_features")
    /\ det' = [det EXCEPT !.result = Some(<<extract_features(det.tx, det.clocks[1]),
                                            extract_features(det.tx, det.clocks[2])>>)]
    /\ UNCHANGED <<svcVars, scanner, loop, metricsVars>>

DetectLiquidationOpportunity ==
    /\ Pending("detect_liquidation_opportunity")
    /\ det' = [det EXCEPT !.result =
                 Some(detect_liquidation_opportunity(det.user_address, det.health_factor,
                                                     det.pool_data))]
    /\ UNCHANGED <<svcVars, scanner, loop, metricsVars>>

ValidateMarketData ==
    /\ Pending("validate_market_data")
    /\ det' = [det EXCEPT !.result = Some(validate_market_data(det.data))]
    /\ UNCHANGED <<svcVars, scanner, loop, metricsVars>>

NextDetect ==
    \/ DetectFlashLoan
    \/ MevDetectSandwich
    \/ PatternDetectSandwich
    \/ DetectMevAttack
    \/ DetectUnusualPatterns
    \/ AggregateBothOrders
    \/ ExtractFeaturesTwice
    \/ DetectLiquidationOpportunity
    \/ ValidateMarketData

SpecDetect == InitDetect /\ [][NextDetect]_vars

\* the detector fn has returned
Returned(fn) == det.fn = fn /\ det.result # None

Result == TheValue(det.result)

(***************************************************************************)
(* Properties of the detectors.                                            *)
(***************************************************************************)
\* C7: detect_flash_loan flags a transaction exactly when amount > 1,000,000
\* and slippage < 0.001 and route_length > 4 hold together (a missing key
\* reads as amount 0, slippage 0, route_length 1); a value on its threshold
\* gives no flag.
C7_FlashLoanRule ==
    Returned("detect_flash_loan") =>
        LET amount == Get(det.tx, "amount", 0)
            slippage == Get(det.tx, "slippage", 0)
            route_length == Get(det.tx, "route_length", 1)
        IN  /\ Result <=> (amount > 1000000 /\ slippage < 10 /\ route_length > 4)
            /\ (amount = 1000000 \/ slippage = 10 \/ route_length = 4) => ~Result

\* flagged just past every threshold
C7_Witness ==
    /\ Returned("detect_flash_loan") /\ Result
    /\ det.tx = [amount |-> 1000001, slippage |-> 9, route_length |-> 5]

\* the scenario of the test: target 100 at t = 0, 60 at -5 s, 80 at +5 s
SandwichScenario ==
    /\ det.target_tx = [amount |-> 100, gas_price |-> 100, timestamp |-> 0]
    /\ det.surrounding_txs = <<TxAt(60, -5), TxAt(80, 5)>>

Stamped(tx) == "timestamp" \in DOMAIN tx

TargetTime == Get(det.target_tx, "timestamp", det.clock[1])

TargetAmount == Get(det.target_tx, "amount", 0)

\* a surrounding transaction with a timestamp and more than half the target's amount
Qualifies(tx) == Stamped(tx) /\ 2 * Get(tx, "amount", 0) > TargetAmount

Surrounding == {det.surrounding_txs[i] : i \in 1..Len(det.surrounding_txs)}

\* C9: MEVDetector.detect_sandwich_attack reports the scenario target 100 at
\* t = 0 with 60 at -5 s and 80 at +5 s, reports a sandwich whenever a
\* qualifying transaction lies strictly before the target and one strictly
\* after, and its confidence is 0.5 or 0.7.
C9_SandwichReported ==
    Returned("mev_detect_sandwich_attack") =>
        /\ SandwichScenario => Result[1]
        /\ ((\E tx \in Surrounding : Qualifies(tx) /\ tx.timestamp < TargetTime)
            /\ (\E tx \in Surrounding : Qualifies(tx) /\ tx.timestamp > TargetTime))
           => Result[1]
        /\ Result[2] \in {500, 700}

\* the scenario, reported with confidence 0.5
C9_Witness ==
    Returned("mev_detect_sandwich_attack") /\ SandwichScenario /\ Result = <<TRUE, 500>>

Recent == {det.recent_txs[i] : i \in 1..Len(det.recent_txs)}

LargeBefore ==
    {i \in 1..Len(det.surrounding_txs) :
        /\ 2 * Get(det.surrounding_txs[i], "amount", 0) > TargetAmount
        /\ Get(det.surrounding_txs[i], "timestamp", det.clock[2]) < TargetTime}

LargeAfter ==
    {i \in 1..Len(det.surrounding_txs) :
        /\ 2 * Get(det.surrounding_txs[i], "amount", 0) > TargetAmount
        /\ Get(det.surrounding_txs[i], "timestamp", det.clock[3]) > TargetTime}

\* C11: the confidence of MEVDetector.detect_sandwich_attack is 0.7 exactly
\* when more than one qualifying transaction lies before the target and more
\* than one after it, and 0.5 otherwise, two or more on one side with a single
\* one on the other included.
C11_Confidence ==
    Returned("mev_detect_sandwich_attack") =>
        LET nb == Cardinality(LargeBefore)
            na == Cardinality(LargeAfter)
        IN  /\ Result[2] = 700 <=> (nb >= 2 /\ na >= 2)
            /\ Result[2] # 700 => Result[2] = 500
            /\ ((nb >= 2 /\ na = 1) \/ (nb = 1 /\ na >= 2)) => Result = <<TRUE, 500>>

\* two before and two after: confidence 0.7
C11_Witness ==
    /\ Returned("mev_detect_sandwich_attack") /\ Result = <<TRUE, 700>>
    /\ det.surrounding_txs = <<TxAt(60, -5), TxAt(120, -40), TxAt(80, 5), TxAt(120, 40)>>

\* two before, one after: a sandwich with confidence 0.5
C11_OneSided ==
    /\ Returned("mev_detect_sandwich_attack") /\ Result = <<TRUE, 500>>
    /\ det.surrounding_txs = <<TxAt(60, -5), TxAt(120, -40), TxAt(80, 5)>>

\* the entries of mempool_txs that are transactions other than tx itself and
\* have tx's token pair
OtherSamePair ==
    {i \in 1..Len(det.mempool_txs) :
        /\ det.mempool_txs[i].tx_hash # det.tx.tx_hash
        /\ SamePair(det.tx, det.mempool_txs[i])}

\* C12: detect_mev_attack flags a transaction if and only if its gas price is
\* strictly above 100 and more than 3 other transactions of mempool_txs, the
\* assessed transaction itself not counted, have its token pair.
C12_MevRule ==
    Returned("detect_mev_attack") =>
        (Result <=> (Get(det.tx, "gas_price", 0) > 100 /\ Cardinality(OtherSamePair) > 3))

Reports(alert) == \E i \in 1..Len(Result) : Result[i] = alert

UserHistory == OrEmpty(det.user_history)

\* the time of the most recent history entry
MostRecent ==
    CHOOSE m \in {UserHistory[i].timestamp : i \in 1..Len(UserHistory)} :
        \A i \in 1..Len(UserHistory) : UserHistory[i].timestamp <= m

\* the history entries of the last 5 minutes
LastMinutes ==
    {i \in 1..Len(UserHistory) :
        /\ 0 <= det.clock - UserHistory[i].timestamp
        /\ det.clock - UserHistory[i].timestamp < 5 * 60}

\* C13: with a non-empty history detect_unusual_patterns reports 'large trade
\* after inactivity' if and only if the most recent history entry is more
\* than 48 hours old and the current amount is above the mean of the history
\* amounts, and 'rapid trading' if and only if more than 10 history entries
\* fall within the last 5 minutes; with no history or an empty one it reports
\* nothing.
C13_UnusualPatterns ==
    Returned("detect_unusual_patterns") =>
        IF UserHistory = <<>> THEN Result = <<>>
        ELSE
          /\ Reports("unusual_after_inactivity") <=>
                /\ det.clock - MostRecent > 48 * 3600
                /\ det.current_tx.amount * Len(UserHistory)
                     > Sum([i \in 1..Len(UserHistory) |-> UserHistory[i].amount])
          /\ Reports("rapid_trading") <=> Cardinality(LastMinutes) > 10
          /\ Cardinality(LastMinutes) = 10 => ~Reports("rapid_trading")

\* eleven entries 299 seconds old and one 300 seconds old: rapid trading
C13_Witness ==
    /\ Returned("detect_unusual_patterns") /\ Reports("rapid_trading")
    /\ Len(UserHistory) = 12 /\ Cardinality(LastMinutes) = 11

\* amount 200 after entries of 100 and 200, both 48 hours and one second
\* old: large trade after inactivity
C13_Inactive ==
    /\ Returned("detect_unusual_patterns")
    /\ Result = <<"unusual_after_inactivity">>
    /\ det.current_tx.amount = 200
    /\ det.user_history = Some(<<TxAt(100, -172801), TxAt(200, -172801)>>)

(***************************************************************************)
(* Findings, flags and failures of assess_risk.                            *)
(***************************************************************************)
\* The conditions that hold of the request of call c for the detectors that
\* its flags select, the detectors read on the fields of the transactions.
ConditionsOf(c) ==
    LET request == c.request
        tx == request.transaction
        history == HistoryOf(request)
        patterns == IF request.check_patterns
                    THEN detect_unusual_patterns(tx, history, c.at) ELSE <<>>
    IN  (IF request.check_contract /\ detect_flash_loan(tx) THEN {"flash_loan"} ELSE {})
        \cup (IF request.check_contract /\ detect_mev_attack(tx, history)
              THEN {"mev"} ELSE {})
        \cup {patterns[i] : i \in 1..Len(patterns)}

Conditions ==
    {"flash_loan", "mev", "unusual_after_inactivity", "rapid_trading", "round_amount"}

\* the findings of an assessment that stand for a condition
FindingsFor(out, condition) ==
    {i \in 1..Len(out.alerts) :
        LET alert == out.alerts[i]
        IN  CASE condition = "flash_loan" -> alert.alert_type = "flash_loan"
              [] condition = "mev" -> alert.alert_type = "mev"
              [] condition = "rapid_trading" ->
                   alert.alert_type = "unusual_pattern"
                   /\ alert.description = "Rapid trading detected"
              [] condition = "unusual_after_inactivity" ->
                   alert.alert_type = "unusual_pattern"
                   /\ alert.description = "Large trade after inactivity"
              [] condition = "round_amount" ->
                   alert.alert_type = "unusual_pattern"
                   /\ alert.description \notin {"Rapid trading detected",
                                                 "Large trade after inactivity"}}

OneFindingPerCondition(c) ==
    c.status = "called" =>
        \A condition \in Conditions :
            IF condition \in ConditionsOf(c)
            THEN Answered(c) /\ Cardinality(FindingsFor(c.out, condition)) = 1
            ELSE Answered(c) => FindingsFor(c.out, condition) = {}

\* C14: every detector condition that holds of a request (flash loan, MEV,
\* large trade after inactivity, rapid trading, round amount) has exactly one
\* finding in the assessment assess_risk returns, and a condition that does
\* not hold has none.
C14_OneFindingPerCondition == OneFindingPerCondition(last) /\ OneFindingPerCondition(again)

FlagsSelect(c) ==
    Answered(c) =>
        /\ ~c.request.check_contract =>
              ~HasAlert(c.out, "flash_loan") /\ ~HasAlert(c.out, "mev")
        /\ ~c.request.check_patterns => ~HasAlert(c.out, "unusual_pattern")
        /\ ~c.request.check_network =>
              /\ ~HasAlert(c.out, "contract_risk")
              /\ c.out.risk_score = ClampScore(PatternWeights(c.out))

\* C16: a detector family whose flag is false gives no finding and adds no
\* weight: check_contract off, no flash_loan and no mev finding;
\* check_patterns off, no unusual_pattern finding; the anomaly family off,
\* no contract_risk finding and no anomaly contribution.  check_network is
\* the one flag of the request left for the anomaly family.
C16_FlagsSelect == FlagsSelect(last) /\ FlagsSelect(again)

ReturnsAssessment(c) ==
    c.status = "called" =>
        /\ c.out.status = "ok"
        /\ {"tx_hash", "risk_score", "risk_level", "alerts"} \subseteq DOMAIN c.out

\* C17: for a well-formed transaction assess_risk returns a complete
\* assessment whatever the optional inputs are: history absent, empty or
\* non-empty, any flags, model trained or not.
C17_ReturnsAssessment == ReturnsAssessment(last) /\ ReturnsAssessment(again)

C15_LevelDiffers ==
    /\ Returned("aggregate")
    /\ det.weights = <<FloatFlashLoan, FloatInactive, <<80530636, 429496728>>>>
    /\ det.reordered = <<FloatFlashLoan, <<80530636, 429496728>>, FloatInactive>>
    /\ Result[1] = [risk_score |-> FloatCutMedium, risk_level |-> "medium"]
    /\ Result[2].risk_level = "low"

(***************************************************************************)
(* SecurityScanner: run_security_scan, process_threat, send_alert.         *)
(*                                                                         *)
(* scanner.env is what the scanner runs against: webhook_url says whether  *)
(* ALERT_WEBHOOK_URL is set; setex_ok, db_ok and lpush_ok say whether the  *)
(* Redis setex, the database insert and the Redis lpush succeed or raise.  *)
(* scanner.fail_left is the sink behind the webhook: the number of posts   *)
(* that still raise before it recovers, -1 for a sink that always raises.  *)
(***************************************************************************)
\* scan_wallet_patterns: the one CRITICAL threat type, one threat per user
MaliciousInteraction(user, t) ==
    [type |-> "MALICIOUS_INTERACTION", severity |-> "CRITICAL",
     user_address |-> user, timestamp |-> t]

\* scan_network_anomalies: at most one HIGH threat, the last of the list
NetworkAnomaly(t) ==
    [type |-> "NETWORK_ANOMALY", severity |-> "HIGH", user_address |-> 0, timestamp |-> t]

\* the threats a scan at time t may collect
ThreatLists(t) ==
    {threats \in {[k \in 1..n |-> MaliciousInteraction(k, t)]
                    \o (IF anomaly THEN <<NetworkAnomaly(t)>> ELSE <<>>) :
                  n \in 0..MaxThreats, anomaly \in BOOLEAN} :
        Len(threats) <= MaxThreats}

Logged(sc, message) == [sc EXCEPT !.errors = Append(@, [i |-> sc.i, message |-> message])]

send_alert_uncaught(threat, sc) ==
    LET post_ok == sc.fail_left = 0
        posted == IF sc.env.webhook_url
                  THEN [sc EXCEPT !.webhook_posts = Append(@, [threat |-> threat, ok |-> post_ok]),
                                  !.fail_left = IF @ > 0 THEN @ - 1 ELSE @]
                  ELSE sc
    IN  IF sc.env.webhook_url /\ ~post_ok
        THEN [sc |-> posted, raised |-> TRUE]
        ELSE IF ~sc.env.lpush_ok
        THEN [sc |-> posted, raised |-> TRUE]
        ELSE [sc |-> [posted EXCEPT !.critical_alerts = <<threat>> \o @],
              raised |-> FALSE]

\* send_alert: one requests.post when the webhook is configured, then the
\* lpush on 'critical_alerts'; whatever raises is logged and swallowed.
\* The result is the scanner after the call and whether the call raised.
send_alert(threat, sc) ==
    LET post_ok == sc.fail_left = 0
        posted == IF sc.env.webhook_url
                  THEN [sc EXCEPT !.webhook_posts = Append(@, [threat |-> threat, ok |-> post_ok]),
                                  !.fail_left = IF @ > 0 THEN @ - 1 ELSE @]
                  ELSE sc
    IN  IF sc.env.webhook_url /\ ~post_ok
        THEN [sc |-> Logged(posted, "Failed to send alert"), raised |-> FALSE]
        ELSE IF ~sc.env.lpush_ok
        THEN [sc |-> Logged(posted, "Failed to send alert"), raised |-> FALSE]
        ELSE [sc |-> [posted EXCEPT !.critical_alerts = <<threat>> \o @],
              raised |-> FALSE]

\* process_threat: setex of threat:<type>:<int(time.time())>, the insert
\* into security_threats, send_alert for a CRITICAL threat; whatever raises
\* is logged and swallowed.
process_threat(threat, sc) ==
    IF ~sc.env.setex_ok
    THEN [sc |-> Logged(sc, "Failed to process threat"), raised |-> FALSE]
    ELSE
      LET cached == [sc EXCEPT !.redis_threats = @ \cup {<<threat.type, sc.clock>>}]
      IN  IF ~sc.env.db_ok
          THEN [sc |-> Logged(cached, "Failed to process threat"), raised |-> FALSE]
          ELSE
            LET stored == [cached EXCEPT !.db_rows = @ + 1]
            IN  IF threat.severity = "CRITICAL"
                THEN LET sent == send_alert(threat, stored)
                     IN  IF sent.raised
                         THEN [sc |-> Logged(sent.sc, "Failed to process threat"),
                               raised |-> FALSE]
                         ELSE sent
                ELSE [sc |-> stored, raised |-> FALSE]

ScannerEnvs ==
    [webhook_url : BOOLEAN, setex_ok : BOOLEAN, db_ok : BOOLEAN, lpush_ok : BOOLEAN]

\* SecurityScanner() before its first scan
NewScanner(env, fail_left) ==
    [pc |-> "idle", clock |-> 0, scans |-> 0, threats |-> <<>>, i |-> 1,
     errors |-> <<>>, redis_threats |-> {}, db_rows |-> 0,
     webhook_posts |-> <<>>, critical_alerts |-> <<>>,
     env |-> env, fail_left |-> fail_left, outcome |-> "none", gauge |-> 0]

InitScan ==
    /\ model_trained = FALSE
    /\ forest = NoForest
    /\ now = 0
    /\ last = NoCall
    /\ again = NoCall
    /\ det = [fn |-> "none"]
    /\ loop = [pc |-> "off"]
    /\ metrics_collector = [pc |-> "off"]
    /\ alerting_system = [pc |-> "off"]
    /\ scanner \in {NewScanner(env, f) : env \in ScannerEnvs, f \in -1..MaxSinkFailures}

\* run_security_scan, up to the loop over the threats; the first scan runs
\* at once, the later ones every SCAN_INTERVAL seconds
StartScan(threats) ==
    /\ scanner.pc = "idle"
    /\ scanner.scans < MaxScans
    /\ scanner' = [scanner EXCEPT !.pc = "processing", !.scans = @ + 1,
                                   !.threats = threats, !.i = 1, !.errors = <<>>]
    /\ UNCHANGED <<svcVars, det, loop, metricsVars>>

\* one turn of the loop: process_threat(threat)
ProcessThreat ==
    /\ scanner.pc = "processing"
    /\ scanner.i <= Len(scanner.threats)
    /\ LET done == process_threat(scanner.threats[scanner.i], scanner)
       IN  scanner' = IF done.raised
                      THEN [Logged(done.sc, "Security scan failed") EXCEPT
                              !.pc = "idle", !.outcome = "failed",
                              !.clock = @ + ScanInterval]
                      ELSE [done.sc EXCEPT !.i = @ + 1]
    /\ UNCHANGED <<svcVars, det, loop, metricsVars>>

\* the end of run_security_scan: the gauge, then back to the schedule
FinishScan ==
    /\ scanner.pc = "processing"
    /\ scanner.i > Len(scanner.threats)
    /\ scanner' = [scanner EXCEPT !.pc = "idle", !.outcome = "completed",
                                   !.gauge = Len(scanner.threats),
                                   !.clock = @ + ScanInterval]
    /\ UNCHANGED <<svcVars, det, loop, metricsVars>>

NextScan ==
    \/ \E threats \in ThreatLists(scanner.clock) : StartScan(threats)
    \/ ProcessThreat
    \/ FinishScan

SpecScan == InitScan /\ [][NextScan]_vars

(***************************************************************************)
(* Properties of the alerts of the scanner.                                *)
(***************************************************************************)
\* the key of an alert: its type and its subject
AlertKey(threat) == <<threat.type, threat.user_address>>

\* C18: within the dedup window (one hour) at most one alert is emitted per
\* key: a detection repeated while the key has an alert younger than the
\* window creates no second alert.
C18_AtMostOnce ==
    scanner.pc # "off" =>
        \A i, j \in 1..Len(scanner.critical_alerts) :
            LET a == scanner.critical_alerts[i]
                b == scanner.critical_alerts[j]
            IN  (i # j /\ AlertKey(a) = AlertKey(b)) =>
                    (a.timestamp - b.timestamp >= 3600 \/ b.timestamp - a.timestamp >= 3600)

\* the posts made for a threat
PostsFor(threat) ==
    {k \in 1..Len(scanner.webhook_posts) : scanner.webhook_posts[k].threat = threat}

Sent(threat) ==
    /\ \E k \in PostsFor(threat) : scanner.webhook_posts[k].ok
    /\ \E k \in 1..Len(scanner.critical_alerts) : scanner.critical_alerts[k] = threat

\* scanner sc is about to process a critical threat, and its sink fails the
\* first two posts made to it and accepts the third
FailsTwice(sc) ==
    /\ sc.pc = "processing" /\ sc.scans = 1 /\ sc.i = 1
    /\ sc.env = [webhook_url |-> TRUE, setex_ok |-> TRUE, db_ok |-> TRUE, lpush_ok |-> TRUE]
    /\ sc.fail_left = 2
    /\ Len(sc.threats) >= 1 /\ sc.threats[1].severity = "CRITICAL"

\* C19: when the sink fails the first 2 delivery attempts and succeeds on
\* the 3rd, the alert ends Sent with exactly 3 attempts recorded.  As a step
\* property: processing a critical threat against such a sink leaves the
\* alert sent after three posts.
C19_RetriedUntilSent ==
    [][FailsTwice(scanner) =>
         LET threat == scanner.threats[1]
             posts == {k \in 1..Len(scanner'.webhook_posts) :
                         scanner'.webhook_posts[k].threat = threat}
         IN  /\ Cardinality(posts) = 3
             /\ \E k \in 1..Len(scanner'.critical_alerts) :
                   scanner'.critical_alerts[k] = threat]_vars

StoreFails == ~scanner.env.setex_ok \/ ~scanner.env.db_ok

\* C20: a failure of the webhook or of the alert queue stays inside
\* send_alert: the scan never ends in its except branch, every scan that ends
\* has been through all its threats, and process_threat takes its own except
\* branch only when storing the threat failed, never for a failed delivery.
C20_DeliveryFailureContained ==
    scanner.pc # "off" =>
        /\ scanner.outcome # "failed"
        /\ (scanner.pc = "idle" /\ scanner.scans > 0) =>
              /\ scanner.outcome = "completed"
              /\ scanner.i = Len(scanner.threats) + 1
              /\ scanner.gauge = Len(scanner.threats)
        /\ \A e \in 1..Len(scanner.errors) :
              /\ scanner.errors[e].message \in {"Failed to send alert", "Failed to process threat"}
              /\ scanner.errors[e].message = "Failed to process threat" => StoreFails

\* a finished scan of two critical threats: the post of the first failed, the
\* second was posted and queued
C20_Witness ==
    /\ scanner.pc = "idle" /\ scanner.outcome = "completed"
    /\ Len(scanner.threats) = 2
    /\ scanner.errors = <<[i |-> 1, message |-> "Failed to send alert"]>>
    /\ ~Sent(scanner.threats[1])
    /\ Sent(scanner.threats[2])


(***************************************************************************)
(* The suspicious transaction of the tests, and the reach of the pattern   *)
(* findings.                                                               *)
(***************************************************************************)
\* amount far above 1,000,000, slippage 0, route_length 6, gas price far
\* above 100
Suspicious(tx) ==
    /\ tx.amount = 1000 * LargeAmount
    /\ tx.slippage = 0
    /\ tx.route_length = 6
    /\ tx.gas_price = HighGas + 400

SuspiciousCall(c) ==
    /\ c.status = "called"
    /\ Suspicious(c.request.transaction)
    /\ c.request.check_patterns /\ c.request.check_contract
    /\ c.request.user_history = None

\* C24: a suspicious transaction assessed with the pattern and contract
\* checks on and no user history gets risk_score > 0.3, a level above
\* 'safe' and at least one alert, whether or not the model is trained.
C24_SuspiciousFlagged ==
    SuspiciousCall(last) =>
        /\ Answered(last)
        /\ last.out.risk_score > 3000
        /\ last.out.risk_level # "safe"
        /\ Len(last.out.alerts) >= 1

\* the anomaly scorer contributes nothing to the call
NoAnomalyContribution(c) == ~c.trained \/ c.out.anomaly[1] <= 700

PatternsAlone(c) ==
    (Answered(c) /\ NoAnomalyContribution(c)) =>
        /\ c.out.risk_level \notin {"high", "critical"}
        /\ c.out.risk_score <= 5500
        /\ c.out.risk_score = PatternWeights(c.out)

CriticalOnlyWithAll(c) ==
    (Answered(c) /\ c.out.risk_level = "critical") =>
        /\ HasAlert(c.out, "flash_loan") /\ HasAlert(c.out, "mev")
        /\ CountAlerts(c.out, "unusual_pattern") = 2
        /\ c.out.anomaly[1] = 1000

\* C30: when the model is untrained or the anomaly score is at most 0.7,
\* assess_risk never returns the level high or critical: the score is the
\* sum of the pattern weights, at most 0.55 and unclamped; and critical is
\* returned only with all four pattern findings and an anomaly score of 1.
C30_PatternsAloneBelowHigh ==
    /\ PatternsAlone(last) /\ PatternsAlone(again)
    /\ CriticalOnlyWithAll(last) /\ CriticalOnlyWithAll(again)

\* a trained call with anomaly score exactly 0.7 and the flash loan finding
C30_Witness ==
    /\ Answered(last)
    /\ last.trained
    /\ last.out.anomaly[1] = 700
    /\ HasAlert(last.out, "flash_loan")
    /\ last.out.risk_score = 1500
    /\ last.out.risk_level = "safe"

(***************************************************************************)
(* Properties of the pure functions of the services.                       *)
(***************************************************************************)
\* C23: extract_features gives the same 6-element vector for the same
\* transaction at whatever time it is called, and a transaction without a
\* timestamp gets a time feature that is not 0.
C23_FeaturesPure ==
    Returned("extract_features") =>
        /\ Result[1] = Result[2]
        /\ Len(Result[1]) = 6
        /\ "timestamp" \notin DOMAIN det.tx => Result[1][6] # 0

\* the OHLC values of the data point are inconsistent
Inconsistent(data) ==
    LET open == Get(data, "open", 0)
        high == Get(data, "high", 0)
        low == Get(data, "low", 0)
        close == Get(data, "close", 0)
    IN  high < low \/ high < open \/ high < close \/ low > open \/ low > close

\* C25: validate_market_data gives is_valid = false for every data point
\* with inconsistent OHLC values, and is_valid = true for a consistent one
\* with a close that is not zero and a volume that is not negative.
C25_MarketDataValid ==
    Returned("validate_market_data") =>
        /\ Inconsistent(det.data) => ~Result.is_valid
        /\ (/\ ~Inconsistent(det.data)
            /\ Get(det.data, "close", 0) # 0
            /\ Get(det.data, "volume", 0) >= 0) => Result.is_valid

\* C26: a position is reported liquidatable exactly when health_factor is
\* below 1.0; then the confidence is above 0 and at most 1, and otherwise
\* the result is (false, 0).
C26_Liquidation ==
    Returned("detect_liquidation_opportunity") =>
        /\ Result[1] <=> det.health_factor < 1000
        /\ Result[1] => (Result[2] > 0 /\ Result[2] <= 1000)
        /\ ~Result[1] => Result = <<FALSE, 0>>

\* the position at health factor exactly 1.0 is not liquidatable
C26_Witness ==
    /\ Returned("detect_liquidation_opportunity")
    /\ det.health_factor = 1000
    /\ Result = <<FALSE, 0>>

\* the position at health factor 0.999 is, with confidence 0.001
C26_JustBelow ==
    /\ Returned("detect_liquidation_opportunity")
    /\ det.health_factor = 999
    /\ Result = <<TRUE, 1>>

(***************************************************************************)
(* The metrics service (python/services/metrics_service.py):               *)
(* MetricsCollector and AlertingSystem.                                    *)
(*                                                                         *)
(* Units.  Latencies and the p95_latency threshold are whole milliseconds; *)
(* the error_rate and success_rate thresholds are in 1/10000 (0.05 = 500). *)
(* An error rate is kept as the pair <<failed, total>> and a percentile in *)
(* 1/100 ms, so that no comparison is rounded.  The floats of the code     *)
(* round the quotient failed / total to the nearest double, which keeps    *)
(* its order against a threshold for every count below 10^15.              *)
(***************************************************************************)
MaxLatencies == 1000        \* deque(maxlen=1000)
DefaultErrorRate == 500     \* 'error_rate': 0.05
DefaultP95Latency == 200    \* 'p95_latency': 200
DefaultSuccessRate == 9500  \* 'success_rate': 0.95

\* the services of _initialize_service_stats, in the order of the list
services ==
    <<"ML_MODELS", "NLP_TRANSLATION", "FRAUD_DETECTION", "DATA_PROCESSING",
      "BLOCKCHAIN_INTELLIGENCE">>

Range(s) == {s[i] : i \in DOMAIN s}

\* the statistics of one service, as the dict literal of the code
NewStats ==
    [total_requests |-> 0, successful_requests |-> 0, failed_requests |-> 0,
     total_latency |-> 0, latencies |-> <<>>, errors |-> EmptyDict,
     cache_hits |-> 0, cache_misses |-> 0,
     last_error |-> None, last_error_time |-> None]

\* _initialize_service_stats: every listed service gets fresh statistics,
\* whatever it had; the other keys of service_stats stay
_initialize_service_stats(service_stats) ==
    [s \in DOMAIN service_stats \cup Range(services) |->
        IF s \in Range(services) THEN NewStats ELSE service_stats[s]]

\* `if value:` on an Optional[str]
Truthy(opt) == opt # None /\ TheValue(opt) # ""

DequeAppendUnbounded(latencies, latency) == Append(latencies, latency)

\* deque(maxlen=1000).append: a full deque drops its oldest entry
DequeAppend(latencies, latency) ==
    IF Len(latencies) = MaxLatencies
    THEN Append(Tail(latencies), latency)
    ELSE Append(latencies, latency)

\* stats['errors'][error] += 1 on a defaultdict(int)
Increment(errors, error) ==
    IF error \in DOMAIN errors
    THEN [errors EXCEPT ![error] = @ + 1]
    ELSE errors @@ (error :> 1)

\* record_request at clock value t
record_request(service_stats, service, latency, success, error, t) ==
    LET created == IF service \in DOMAIN service_stats
                   THEN service_stats
                   ELSE service_stats @@ (service :> NewStats)
        counted == [created[service] EXCEPT
                        !.total_requests = @ + 1,
                        !.latencies = DequeAppend(@, latency),
                        !.total_latency = @ + latency]
        stats == IF success
                 THEN [counted EXCEPT !.successful_requests = @ + 1]
                 ELSE IF Truthy(error)
                      THEN [counted EXCEPT
                                !.failed_requests = @ + 1,
                                !.errors = Increment(@, TheValue(error)),
                                !.last_error = error,
                                !.last_error_time = Some(t)]
                      ELSE [counted EXCEPT !.failed_requests = @ + 1]
    IN  [created EXCEPT ![service] = stats]

record_cache_hit(service_stats, service) ==
    IF service \in DOMAIN service_stats
    THEN [service_stats EXCEPT ![service].cache_hits = @ + 1]
    ELSE service_stats

record_cache_miss(service_stats, service) ==
    IF service \in DOMAIN service_stats
    THEN [service_stats EXCEPT ![service].cache_misses = @ + 1]
    ELSE service_stats

\* reset_metrics(service): a named service that has statistics first runs
\* _initialize_service_stats and then gets its own fresh statistics
reset_metrics(service_stats, service) ==
    IF Truthy(service)
    THEN IF TheValue(service) \in DOMAIN service_stats
         THEN [_initialize_service_stats(service_stats) EXCEPT
                    ![TheValue(service)] = NewStats]
         ELSE service_stats
    ELSE _initialize_service_stats(service_stats)

\* the k-th smallest entry of a non-empty list, k counted from 0
KthSmallest(s, k) ==
    CHOOSE v \in Range(s) :
        /\ Cardinality({i \in DOMAIN s : s[i] < v}) <= k
        /\ k < Cardinality({i \in DOMAIN s : s[i] <= v})

\* np.percentile(list, 95) in 1/100: linear interpolation between the two
\* entries around the position 0.95 * (n - 1) of the sorted list
Percentile95(s) ==
    LET pos == 95 * (Len(s) - 1)
        lo == pos \div 100
        frac == pos % 100
        below == KthSmallest(s, lo)
        above == IF frac = 0 THEN below ELSE KthSmallest(s, lo + 1)
    IN  100 * below + frac * (above - below)

\* the keys of service_stats in the order of the dict: the listed services
\* and then the one service that record_request can add
CustomService == "CUSTOM"

DictOrder(service_stats) ==
    SelectSeq(services \o <<CustomService>>, LAMBDA s : s \in DOMAIN service_stats)

ErrorRateAlert(service, stats, thresholds, t) ==
    [severity |-> "warning", service |-> service, type |-> "error_rate",
     value |-> <<stats.failed_requests, stats.total_requests>>,
     threshold |-> thresholds.error_rate, timestamp |-> t]

LatencyAlert(service, stats, thresholds, t) ==
    [severity |-> "warning", service |-> service, type |-> "latency",
     value |-> Percentile95(stats.latencies),
     threshold |-> thresholds.p95_latency, timestamp |-> t]

ErrorRateHighInclusive(stats, thresholds) ==
    stats.failed_requests * 10000 >= thresholds.error_rate * stats.total_requests

\* error_rate > self.thresholds['error_rate']
ErrorRateHigh(stats, thresholds) ==
    stats.failed_requests * 10000 > thresholds.error_rate * stats.total_requests

\* the alerts of one service in check_alerts; the message of an alert is
\* its value formatted and is left out
ServiceAlerts(service, stats, thresholds, t) ==
    IF stats.total_requests = 0 THEN <<>>
    ELSE (IF ErrorRateHigh(stats, thresholds)
          THEN <<ErrorRateAlert(service, stats, thresholds, t)>> ELSE <<>>)
         \o (IF stats.latencies # <<>>
                /\ Percentile95(stats.latencies) > 100 * thresholds.p95_latency
             THEN <<LatencyAlert(service, stats, thresholds, t)>> ELSE <<>>)

RECURSIVE AlertsOf(_, _, _, _)
AlertsOf(order, service_stats, thresholds, t) ==
    IF order = <<>> THEN <<>>
    ELSE ServiceAlerts(Head(order), service_stats[Head(order)], thresholds, t)
         \o AlertsOf(Tail(order), service_stats, thresholds, t)

\* check_alerts: the new value of self.alerts, which is also returned
check_alerts(service_stats, thresholds, t) ==
    AlertsOf(DictOrder(service_stats), service_stats, thresholds, t)

\* set_threshold
set_threshold(thresholds, metric, value) ==
    IF metric \in DOMAIN thresholds
    THEN [thresholds EXCEPT ![metric] = value]
    ELSE thresholds

\* get_alerts(severity)
get_alerts(alerts, severity) ==
    IF Truthy(severity)
    THEN SelectSeq(alerts, LAMBDA a : a.severity = TheValue(severity))
    ELSE alerts

(***************************************************************************)
(* The metrics service as a state machine.  The fields requests of the     *)
(* collector and fresh and dropped of the alerting system are history of   *)
(* the run: the record_request calls made, whether self.alerts is the      *)
(* result of a check made after the latest change, and the services whose  *)
(* error_rate alert the latest check did not issue again.                  *)
(***************************************************************************)
MaxRequests == 3    \* record_request calls of a run
MaxCacheOps == 1    \* most cache hits, and most misses, of a service

RequestServices == {"ML_MODELS", CustomService}

RequestInputs ==
    {[latency |-> 100, success |-> TRUE, error |-> None],
     [latency |-> 300, success |-> FALSE, error |-> Some("timeout")],
     [latency |-> 300, success |-> FALSE, error |-> None],
     [latency |-> 100, success |-> FALSE, error |-> Some("bad_request")],
     [latency |-> 300, success |-> TRUE, error |-> Some("timeout")]}

CacheServices == {"ML_MODELS", "UNKNOWN"}

ResetInputs == Opt({"", "FRAUD_DETECTION", CustomService, "UNKNOWN"})

ThresholdInputs ==
    {<<"error_rate", 5000>>, <<"error_rate", -100>>, <<"p95_latency", 350>>,
     <<"unknown_metric", 100>>}

\* MetricsCollector.__init__
NewCollector ==
    [service_stats |-> _initialize_service_stats(EmptyDict), requests |-> 0]

\* the collector after n successful requests of 100 ms to ML_MODELS
WarmCollector(n) ==
    [NewCollector EXCEPT
        !.service_stats["ML_MODELS"] =
            [NewStats EXCEPT !.total_requests = n,
                             !.successful_requests = n,
                             !.total_latency = 100 * n,
                             !.latencies = [i \in 1..n |-> 100]]]

\* AlertingSystem.__init__
NewAlerting ==
    [thresholds |-> [error_rate |-> DefaultErrorRate,
                     p95_latency |-> DefaultP95Latency,
                     success_rate |-> DefaultSuccessRate],
     alerts |-> <<>>, fresh |-> FALSE, dropped |-> {}]

Stale(alerting) == [alerting EXCEPT !.fresh = FALSE]

InitMetrics ==
    /\ model_trained = FALSE
    /\ forest = NoForest
    /\ now = 0
    /\ last = NoCall
    /\ again = NoCall
    /\ det = [fn |-> "none"]
    /\ scanner = [pc |-> "off"]
    /\ loop = [pc |-> "off"]
    /\ metrics_collector \in {NewCollector, WarmCollector(MaxLatencies - 1)}
    /\ alerting_system = NewAlerting

InitAlerts ==
    /\ model_trained = FALSE
    /\ forest = NoForest
    /\ now = 0
    /\ last = NoCall
    /\ again = NoCall
    /\ det = [fn |-> "none"]
    /\ scanner = [pc |-> "off"]
    /\ loop = [pc |-> "off"]
    /\ metrics_collector = NewCollector
    /\ alerting_system = NewAlerting

RecordRequest(service, r) ==
    /\ metrics_collector.requests < MaxRequests
    /\ metrics_collector' =
            [service_stats |-> record_request(metrics_collector.service_stats, service,
                                              r.latency, r.success, r.error, now),
             requests |-> metrics_collector.requests + 1]
    /\ alerting_system' = Stale(alerting_system)
    /\ UNCHANGED <<svcVars, det, scanner, loop>>

CacheOpsLeft(service, counter) ==
    service \in DOMAIN metrics_collector.service_stats
        => metrics_collector.service_stats[service][counter] < MaxCacheOps

RecordCacheHit(service) ==
    /\ CacheOpsLeft(service, "cache_hits")
    /\ metrics_collector' =
            [metrics_collector EXCEPT
                !.service_stats = record_cache_hit(@, service)]
    /\ alerting_system' = Stale(alerting_system)
    /\ UNCHANGED <<svcVars, det, scanner, loop>>

RecordCacheMiss(service) ==
    /\ CacheOpsLeft(service, "cache_misses")
    /\ metrics_collector' =
            [metrics_collector EXCEPT
                !.service_stats = record_cache_miss(@, service)]
    /\ alerting_system' = Stale(alerting_system)
    /\ UNCHANGED <<svcVars, det, scanner, loop>>

\* POST /metrics/reset
ResetMetrics(service) ==
    /\ metrics_collector' =
            [metrics_collector EXCEPT
                !.service_stats = reset_metrics(@, service)]
    /\ alerting_system' = Stale(alerting_system)
    /\ UNCHANGED <<svcVars, det, scanner, loop>>

HasErrorRateAlert(alerts, service) ==
    \E i \in DOMAIN alerts :
        alerts[i].type = "error_rate" /\ alerts[i].service = service

\* GET /metrics/alerts
CheckAlerts ==
    /\ LET alerts == check_alerts(metrics_collector.service_stats,
                                  alerting_system.thresholds, now)
       IN  alerting_system' =
                [alerting_system EXCEPT
                    !.alerts = alerts,
                    !.fresh = TRUE,
                    !.dropped = {s \in DOMAIN metrics_collector.service_stats :
                                    /\ HasErrorRateAlert(alerting_system.alerts, s)
                                    /\ ~HasErrorRateAlert(alerts, s)}]
    /\ UNCHANGED <<svcVars, det, scanner, loop, metrics_collector>>

SetThreshold(metric, value) ==
    /\ alerting_system' =
            [alerting_system EXCEPT
                !.thresholds = set_threshold(@, metric, value),
                !.fresh = FALSE]
    /\ UNCHANGED <<svcVars, det, scanner, loop, metrics_collector>>

NextMetrics ==
    \/ \E service \in RequestServices, r \in RequestInputs : RecordRequest(service, r)
    \/ \E service \in CacheServices : RecordCacheHit(service)
    \/ \E service \in CacheServices : RecordCacheMiss(service)
    \/ \E service \in ResetInputs : ResetMetrics(service)

SpecMetrics == InitMetrics /\ [][NextMetrics]_vars

NextAlerts ==
    \/ \E service \in RequestServices, r \in RequestInputs : RecordRequest(service, r)
    \/ \E service \in ResetInputs : ResetMetrics(service)
    \/ CheckAlerts
    \/ \E input \in ThresholdInputs : SetThreshold(input[1], input[2])

SpecAlerts == InitAlerts /\ [][NextAlerts]_vars

(***************************************************************************)
(* Properties of the metrics service.                                      *)
(***************************************************************************)
Thresholds == alerting_system.thresholds

\* C21: the threshold table never takes a negative value and never gets a
\* key besides its three: set_threshold rejects a negative value and an
\* unrecognized metric name, leaving the table as it was.
C21_ThresholdsValidated ==
    /\ DOMAIN Thresholds = {"error_rate", "p95_latency", "success_rate"}
    /\ \A metric \in DOMAIN Thresholds : Thresholds[metric] >= 0


Stats == metrics_collector.service_stats

\* the names a caller may give: those with statistics and one without
ServiceNames == DOMAIN Stats \cup {"UNKNOWN"}

\* failed_requests / total_requests of the service is above the threshold
RateAboveThreshold(service) ==
    /\ service \in DOMAIN Stats
    /\ Stats[service].total_requests >= 1
    /\ Stats[service].failed_requests * 10000
            > Thresholds.error_rate * Stats[service].total_requests

\* C27: after check_alerts, get_alerts holds an error_rate alert of a
\* service exactly when the service has a request and its failed / total is
\* strictly above the error_rate threshold; a service without requests has
\* none, and an alert of an earlier check whose condition is gone is not kept.
C27_ErrorRateAlerts ==
    alerting_system.fresh =>
        \A service \in ServiceNames :
            HasErrorRateAlert(get_alerts(alerting_system.alerts, None), service)
                <=> RateAboveThreshold(service)

\* the latest check dropped the error_rate alert of a service that still
\* has requests, and kept or issued the one of another
C27_Witness ==
    /\ alerting_system.fresh
    /\ \E service \in alerting_system.dropped :
            /\ Stats[service].total_requests >= 1
            /\ Stats[service].failed_requests >= 1
    /\ \E service \in DOMAIN Stats :
            HasErrorRateAlert(alerting_system.alerts, service)

RECURSIVE SumValues(_)
SumValues(d) ==
    IF DOMAIN d = {} THEN 0
    ELSE LET k == CHOOSE k \in DOMAIN d : TRUE
         IN  d[k] + SumValues([j \in DOMAIN d \ {k} |-> d[j]])

\* C29: after any record_request, record_cache_hit, record_cache_miss and
\* reset_metrics calls, every service has total_requests =
\* successful_requests + failed_requests, min(total_requests, 1000) stored
\* latencies, and per-error counts that sum to at most failed_requests.
C29_StatsInvariants ==
    \A s \in DOMAIN Stats :
        /\ Stats[s].total_requests = Stats[s].successful_requests + Stats[s].failed_requests
        /\ Len(Stats[s].latencies) = Min(Stats[s].total_requests, 1000)
        /\ SumValues(Stats[s].errors) <= Stats[s].failed_requests

\* a service past its 1000th request, with a failure that named no error
C29_Witness ==
    \E s \in DOMAIN Stats :
        /\ Stats[s].total_requests = 1001
        /\ Len(Stats[s].latencies) = 1000
        /\ Stats[s].failed_requests = 2
        /\ SumValues(Stats[s].errors) = 1
        /\ Stats[s].cache_hits = 1

(***************************************************************************)
(* The service under asyncio.  uvicorn runs the app on one event loop: a   *)
(* coroutine runs from one await to its next without any other coroutine   *)
(* running in between.  assess_risk has no await in its body;              *)
(* _train_models awaits the rows of the database and then calls the        *)
(* synchronous AnomalyDetector.train, which refits the scaler and the      *)
(* forest in place and then sets model_trained.                            *)
(*                                                                         *)
(* The fitted model is kept here in its two parts: the scaler as the mean  *)
(* it subtracts from the time feature, the forest as its split on the      *)
(* scaled feature.                                                         *)
(***************************************************************************)
MaxTasks == 3       \* coroutines started on the loop

\* what fit_transform and fit can leave behind
Fits ==
    {[mean |-> 1, split |-> 0, lo |-> -1000, hi |-> -2],
     [mean |-> 0, split |-> 0, lo |-> -2, hi |-> -800]}

\* AnomalyDetector.__init__, and the detector after a training with fit
NewDetector == [model_trained |-> FALSE, scaler |-> 0, isolation_forest |-> NoForest]

Trained(fit) ==
    [model_trained |-> TRUE, scaler |-> fit.mean,
     isolation_forest |-> [split |-> fit.split, lo |-> fit.lo, hi |-> fit.hi]]

\* scaler.transform and then score_samples, as one forest on the time
\* feature itself
Effective(detector) ==
    [detector.isolation_forest EXCEPT !.split = @ + detector.scaler]

\* the statements of _train_models on n rows, of which train runs the fits
\* only on 10 rows or more
TrainStatements(n) ==
    IF n < MinTrainSize THEN <<"fetch">>
    ELSE <<"fetch", "fit_transform", "fit", "model_trained">>

AwaitsAlways(statement) == TRUE

\* the statements that are awaits: rows = await self.db.fetch(query)
Awaits(statement) == statement = "fetch"

\* one statement of _train_models on the detector
Execute(statement, detector, fit) ==
    CASE statement = "fetch" -> detector
      [] statement = "fit_transform" -> [detector EXCEPT !.scaler = fit.mean]
      [] statement = "fit" ->
            [detector EXCEPT !.isolation_forest =
                [split |-> fit.split, lo |-> fit.lo, hi |-> fit.hi]]
      [] statement = "model_trained" -> [detector EXCEPT !.model_trained = TRUE]

\* the coroutine from its statement pc on, up to its next await or its end
RECURSIVE RunTrain(_, _, _)
RunTrain(task, pc, detector) ==
    LET statements == TrainStatements(task.n)
        after == Execute(statements[pc], detector, task.fit)
    IN  IF pc = Len(statements) THEN [pc |-> 0, detector |-> after]
        ELSE IF Awaits(statements[pc]) THEN [pc |-> pc + 1, detector |-> after]
        ELSE RunTrain(task, pc + 1, after)

\* requests of independent transactions, every check on, no history
LoopRequests ==
    {r \in Requests :
        /\ r.user_history = None
        /\ r.check_patterns /\ r.check_network /\ r.check_contract
        /\ r.transaction.amount \in {LargeAmount, 2 * LargeAmount}}

\* a coroutine at its first statement; pc 0 is a coroutine that has returned
Coroutines ==
    {[coroutine |-> "assess_risk", request |-> r, pc |-> 1, out |-> NoCall] :
        r \in LoopRequests}
    \cup {[coroutine |-> "_train_models", n |-> n, fit |-> fit, pc |-> 1] :
            n \in {MinTrainSize - 1, MinTrainSize}, fit \in Fits}

\* committed: the detectors that were ever left behind by a constructor or
\* a whole training (history of the run)
InitLoop ==
    /\ model_trained = FALSE
    /\ forest = NoForest
    /\ now = 0
    /\ last = NoCall
    /\ again = NoCall
    /\ det = [fn |-> "none"]
    /\ scanner = [pc |-> "off"]
    /\ metrics_collector = [pc |-> "off"]
    /\ alerting_system = [pc |-> "off"]
    /\ \E detector \in {NewDetector} \cup {Trained(fit) : fit \in Fits} :
            loop = [tasks |-> <<>>, detector |-> detector, committed |-> {detector}]

\* a request arrives, or a training is started
CreateTask(task) ==
    /\ Len(loop.tasks) < MaxTasks
    /\ loop' = [loop EXCEPT !.tasks = Append(@, task)]
    /\ UNCHANGED <<svcVars, det, scanner, metricsVars>>

\* the loop runs the assess_risk coroutine i: the whole body
RunAssessRisk(i) ==
    /\ loop.tasks[i].coroutine = "assess_risk"
    /\ loop.tasks[i].pc = 1
    /\ loop' = [loop EXCEPT
                    !.tasks[i].pc = 0,
                    !.tasks[i].out =
                        Call(loop.tasks[i].request, now, loop.detector.model_trained,
                             Effective(loop.detector))]
    /\ UNCHANGED <<svcVars, det, scanner, metricsVars>>

\* the loop runs the _train_models coroutine i up to its next await
RunTrainModels(i) ==
    /\ loop.tasks[i].coroutine = "_train_models"
    /\ loop.tasks[i].pc > 0
    /\ LET ran == RunTrain(loop.tasks[i], loop.tasks[i].pc, loop.detector)
       IN  loop' = [loop EXCEPT
                        !.tasks[i].pc = ran.pc,
                        !.detector = ran.detector,
                        !.committed = IF ran.pc = 0 THEN @ \cup {ran.detector} ELSE @]
    /\ UNCHANGED <<svcVars, det, scanner, metricsVars>>

NextLoop ==
    \/ \E task \in Coroutines : CreateTask(task)
    \/ \E i \in DOMAIN loop.tasks : RunAssessRisk(i)
    \/ \E i \in DOMAIN loop.tasks : RunTrainModels(i)

SpecLoop == InitLoop /\ [][NextLoop]_vars

(***************************************************************************)
(* Properties of the service under concurrency.                            *)
(***************************************************************************)
\* what the request of a call returns when it runs alone on detector
Alone(call, detector) ==
    assess_risk(call.request, call.at, detector.model_trained, Effective(detector))

Returned_assess_risk(task) == task.coroutine = "assess_risk" /\ task.pc = 0

=============================================================================
